---- MODULE Spec2Model ----
(***************************************************************************)
(* A model of check_gradle9_compat.py: the rule scanner                    *)
(* (scan_text_for_rules over the RULES table), file discovery (find_files),*)
(* the plugin manifest (parse_plugins) and the control flow of main.       *)
(*                                                                         *)
(* A text is a sequence of fragments.  A fragment stands for a piece of    *)
(* build-script text; its kind says which regular expression of RULES      *)
(* matches inside it, g1 and g2 are the digit strings the capture groups   *)
(* (\d+) of the two classpath patterns see there:                          *)
(*   apply_maven   apply plugin: 'maven'                                   *)
(*   compile       <newline> compile 'g:a:1'                               *)
(*   compileOnly   <newline> compileOnly 'g:a:1'        (no pattern)       *)
(*   provided      <newline> provided 'g:a:1'                              *)
(*   jcenter       jcenter()                                               *)
(*   kae           apply plugin: 'kotlin-android-extensions'               *)
(*   agp           classpath 'com.android.tools.build:gradle:<g1>.0'       *)
(*   kotlin        classpath 'org.jetbrains.kotlin:kotlin-gradle-plugin:   *)
(*                 <g1>.<g2>'                                              *)
(*   buildscript   <newline>buildscript {                                  *)
(*   plain         mavenCentral()                       (no pattern)       *)
(* A digit string is a sequence of digits, most significant first.         *)
(***************************************************************************)
EXTENDS Integers, Sequences, FiniteSets

VARIABLES
    text,       \* scan_text_for_rules: the argument
    hits,       \* scan_text_for_rules: the list returned
    scan_pc,    \* "call" before the scan, "return" after it, "idle" in main's runs
    \* the file system main runs on
    has_pubspec,    \* (root / "pubspec.yaml").exists()
    has_android,    \* (root / "android").exists()
    android_tree,   \* the files under android/, in the order rglob enumerates them
    manifest,       \* the file .flutter-plugins-dependencies
    declared,       \* the directories the manifest's plugin paths name
    pub_cache,      \* the entries under the pub cache, in enumeration order
    wrapper,        \* the file android/gradle/wrapper/gradle-wrapper.properties
    \* main's locals
    pc,
    out,            \* what has been printed, in order
    android_files,
    fi,             \* position of the loop over android_files
    project_findings,
    plugins,
    pi,             \* position of the loop over plugins
    plugin_findings,
    wrapper_version,    \* "" for None
    total_project,
    total_plugins,
    total,
    exit_status,    \* -1 while the process runs
    \* history, read by the properties only
    scanned,        \* number of files read and scanned so far
    found,          \* number of findings all scans so far returned
    resolved        \* per plugin entry processed: where it was looked for

scan_vars == <<text, hits, scan_pc>>

world_vars ==
    <<has_pubspec, has_android, android_tree, manifest, declared, pub_cache, wrapper>>

main_vars ==
    <<pc, out, android_files, fi, project_findings, plugins, pi, plugin_findings,
      wrapper_version, total_project, total_plugins, total, exit_status, scanned,
      found, resolved>>

vars == <<scan_vars, world_vars, main_vars>>

\* Longest text, in fragments, handed to the scanner.
MaxTextLen == 3

NoDigits == <<>>

Frag(k) == [kind |-> k, g1 |-> NoDigits, g2 |-> NoDigits]

Agp(major) == [kind |-> "agp", g1 |-> major, g2 |-> NoDigits]

Kotlin(major, minor) == [kind |-> "kotlin", g1 |-> major, g2 |-> minor]

\* AGP majors 7, 8 and the two-digit 10.
AgpMajors == {<<7>>, <<8>>, <<1, 0>>}

\* Kotlin versions 0.10, 1.8, 1.9, 1.10 and 2.0.
KotlinVersions ==
    {<<<<0>>, <<1, 0>>>>, <<<<1>>, <<8>>>>, <<<<1>>, <<9>>>>,
     <<<<1>>, <<1, 0>>>>, <<<<2>>, <<0>>>>}

PlainKinds ==
    {"apply_maven", "compile", "compileOnly", "provided", "jcenter", "kae",
     "buildscript", "plain"}

Fragments ==
    {Frag(k) : k \in PlainKinds}
        \cup {Agp(d) : d \in AgpMajors}
        \cup {Kotlin(v[1], v[2]) : v \in KotlinVersions}

Texts == UNION {[1..n -> Fragments] : n \in 0..MaxTextLen}

\* RULES: (title, pattern, advice, sev); a pattern is named by the fragment
\* kind its regular expression matches.
RULES ==
    << [title |-> "Deprecated 'maven' plugin", pattern |-> "apply_maven",
        advice |-> "Replace with 'maven-publish'.", sev |-> "HIGH"],
       [title |-> "Deprecated 'compile' configuration", pattern |-> "compile",
        advice |-> "Use 'implementation' or 'api'.", sev |-> "HIGH"],
       [title |-> "Deprecated 'provided' configuration", pattern |-> "provided",
        advice |-> "Use 'compileOnly'.", sev |-> "HIGH"],
       [title |-> "JCenter repository", pattern |-> "jcenter",
        advice |-> "Remove jcenter(); use mavenCentral() + google().", sev |-> "HIGH"],
       [title |-> "Kotlin Android Extensions plugin", pattern |-> "kae",
        advice |-> "Removed; switch to ViewBinding / kotlin-parcelize.", sev |-> "HIGH"],
       [title |-> "Old AGP classpath (<8)", pattern |-> "agp",
        advice |-> "Upgrade AGP to 8+ (Gradle 9 readiness).", sev |-> "HIGH"],
       [title |-> "Old Kotlin plugin (<1.9)", pattern |-> "kotlin",
        advice |-> "Consider Kotlin 1.9+ depending on AGP.", sev |-> "WARN"],
       [title |-> "Legacy buildscript{} style", pattern |-> "buildscript",
        advice |-> "Not wrong, but modern projects prefer plugins{} / version catalogs.",
        sev |-> "INFO"] >>

\* int(s) of a digit string.
RECURSIVE int(_)
int(d) ==
    IF d = <<>> THEN 0
    ELSE 10 * int(SubSeq(d, 1, Len(d) - 1)) + d[Len(d)]

\* Whether the regular expression matches inside one fragment.
matches(pattern, frag) == frag.kind = pattern

\* pattern.search(text): the position of the leftmost match, 0 for None.
search(pattern, txt) ==
    IF \E i \in DOMAIN txt : matches(pattern, txt[i])
    THEN CHOOSE i \in DOMAIN txt :
            /\ matches(pattern, txt[i])
            /\ \A j \in 1..(i - 1) : ~matches(pattern, txt[j])
    ELSE 0

\* A faulty variant: the captured major compared as a string ("10" < "8").
AgpSuppressedLexical(major) == major[1] >= 8

\* Lines 142-144: the AGP match is no finding when int(major) >= 8.
AgpSuppressed(major) == int(major) >= 8

\* A faulty variant: both components compared against the threshold separately.
KotlinSuppressedComponentwise(major, minor) == int(major) >= 1 /\ int(minor) >= 9

\* Lines 147-150: the Kotlin match is no finding from 1.9 on.
KotlinSuppressed(major, minor) ==
    (int(major) > 1) \/ (int(major) = 1 /\ int(minor) >= 9)

Finding(rule) == [sev |-> rule.sev, title |-> rule.title, advice |-> rule.advice]

\* A faulty variant: one finding for every occurrence (finditer instead of search).
RuleHitsEveryMatch(rule, txt) ==
    LET occ == SelectSeq(txt, LAMBDA f : matches(rule.pattern, f))
    IN  [i \in 1..Len(occ) |-> Finding(rule)]

\* The body of the loop over RULES (lines 136-152): what one rule adds to hits.
RuleHits(rule, txt) ==
    LET m == search(rule.pattern, txt)
    IN  IF m = 0 THEN <<>>
        ELSE IF rule.title = "Old AGP classpath (<8)" /\ AgpSuppressed(txt[m].g1)
        THEN <<>>
        ELSE IF rule.title = "Old Kotlin plugin (<1.9)"
                /\ KotlinSuppressed(txt[m].g1, txt[m].g2)
        THEN <<>>
        ELSE <<Finding(rule)>>

RECURSIVE ScanFrom(_, _)
ScanFrom(i, txt) ==
    IF i > Len(RULES) THEN <<>>
    ELSE RuleHits(RULES[i], txt) \o ScanFrom(i + 1, txt)

\* scan_text_for_rules(text): the loop over RULES in table order.
scan_text_for_rules(txt) == ScanFrom(1, txt)


(***************************************************************************)
(* Files.  A file is [path, name, content, readable]: name is the file     *)
(* name split at its dots ("settings.gradle" is <<"settings", "gradle">>), *)
(* content is the text read_text returns when the read succeeds, readable  *)
(* says whether Path.read_text succeeds.                                   *)
(***************************************************************************)

\* Most files under one android/ directory of the project.
MaxFiles == 2

\* Most entries under the pub cache.
MaxCache == 2

File(p, n, c, r) == [path |-> p, name |-> n, content |-> c, readable |-> r]

\* What an exception leaving read_text looks like to its caller.
Raised == <<[kind |-> "Exception", g1 |-> NoDigits, g2 |-> NoDigits]>>

\* A faulty variant: the except clause is missing and the error reaches the caller.
read_text_propagates(f) == IF f.readable THEN f.content ELSE Raised

\* read_text (lines 49-53): the content, "" when the read raises.
read_text(f) == IF f.readable THEN f.content ELSE <<>>

\* The patterns main hands to find_files (lines 215 and 251).
PATTERNS ==
    <<"*.gradle", "*.gradle.kts", "gradle.properties", "settings.gradle",
      "settings.gradle.kts">>

\* Whether a file name matches one rglob pattern of PATTERNS.
fnmatch(name, pat) ==
    LET n == Len(name)
    IN  CASE pat = "*.gradle" -> n >= 2 /\ name[n] = "gradle"
          [] pat = "*.gradle.kts" ->
                n >= 3 /\ name[n - 1] = "gradle" /\ name[n] = "kts"
          [] pat = "gradle.properties" -> name = <<"gradle", "properties">>
          [] pat = "settings.gradle" -> name = <<"settings", "gradle">>
          [] pat = "settings.gradle.kts" -> name = <<"settings", "gradle", "kts">>
          [] OTHER -> FALSE

\* root.rglob(pat): the files of the tree the pattern matches, as enumerated.
rglob(tree, pat) == SelectSeq(tree, LAMBDA f : fnmatch(f.name, pat))

\* Lines 56-58: out.extend(root.rglob(pat)) for every pattern in turn.
RECURSIVE extend_all(_, _, _)
extend_all(tree, patterns, i) ==
    IF i > Len(patterns) THEN <<>>
    ELSE rglob(tree, patterns[i]) \o extend_all(tree, patterns, i + 1)

\* Lines 60-65: the first occurrence of every path, in order.
RECURSIVE de_dup(_, _)
de_dup(lst, seen) ==
    IF lst = <<>> THEN <<>>
    ELSE IF Head(lst).path \in seen THEN de_dup(Tail(lst), seen)
    ELSE <<Head(lst)>> \o de_dup(Tail(lst), seen \cup {Head(lst).path})

\* A faulty variant: the de-duplication is left out.
find_files_no_de_dup(tree, patterns) == extend_all(tree, patterns, 1)

\* find_files (lines 55-66).
find_files(tree, patterns) == de_dup(extend_all(tree, patterns, 1), {})

\* A faulty variant: the loop ends at the first file without findings (break for
\* continue), so what is found depends on the order of the files.
RECURSIVE scan_files_until_clean(_)
scan_files_until_clean(files) ==
    IF files = <<>> THEN <<>>
    ELSE LET h == scan_text_for_rules(read_text(Head(files)))
         IN  IF h = <<>> THEN <<>>
             ELSE <<[file |-> Head(files).path, hits |-> h]>>
                    \o scan_files_until_clean(Tail(files))

\* Lines 254-258: the (file, hits) entries of the files that have findings.
RECURSIVE scan_files(_)
scan_files(files) ==
    IF files = <<>> THEN <<>>
    ELSE LET h == scan_text_for_rules(read_text(Head(files)))
         IN  (IF h # <<>> THEN <<[file |-> Head(files).path, hits |-> h]>> ELSE <<>>)
                \o scan_files(Tail(files))

\* A faulty variant: the number of entries instead of the number of findings.
sum_len_entries(findings) == Len(findings)

\* sum(len(h) for _, h in findings) (lines 264 and 291).
RECURSIVE sum_len(_)
sum_len(findings) ==
    IF findings = <<>> THEN 0
    ELSE Len(Head(findings).hits) + sum_len(Tail(findings))

\* Line 265: the findings of all files of all plugins.
RECURSIVE sum_plugins(_)
sum_plugins(pf) ==
    IF pf = <<>> THEN 0
    ELSE sum_len(Head(pf).files) + sum_plugins(Tail(pf))

\* A faulty variant: the plugin findings are left out of the total.
total_of_project_only(tp, tpl) == tp

\* Line 266.
total_of(tp, tpl) == tp + tpl

\* A line of gradle-wrapper.properties: version is what ([0-9.]+) captures
\* when WRAPPER_RE matches in the line, "" when it does not match there.
WrapperLine(v) == [kind |-> "line", version |-> v]

\* WRAPPER_RE.search(text) and m.group(1): the version of the first line
\* the pattern matches in, "" (None) without a match.
wrapper_search(txt) ==
    LET hit(i) == txt[i].kind = "line" /\ txt[i].version # ""
    IN  IF \E i \in DOMAIN txt : hit(i)
        THEN txt[CHOOSE i \in DOMAIN txt :
                    hit(i) /\ \A j \in 1..(i - 1) : ~hit(j)].version
        ELSE ""

\* Lines 223-228.
wrapper_version_of(w) == IF w.exists THEN wrapper_search(read_text(w)) ELSE ""

(***************************************************************************)
(* The plugin manifest.  A JSON value is [t, v]: t is its type, v its      *)
(* Python value (a record for an object, a sequence for an array).         *)
(***************************************************************************)

JNull == [t |-> "null", v |-> 0]

JNum(n) == [t |-> "num", v |-> n]

JStr(s) == [t |-> "str", v |-> s]

JArr(a) == [t |-> "arr", v |-> a]

JObj(o) == [t |-> "obj", v |-> o]

EmptyObj == JObj([k \in {} |-> JNull])

PluginEntry(name, path) == JObj([name |-> JStr(name), path |-> JStr(path)])

Manifest(android) == JObj([plugins |-> JObj([android |-> android])])

Foo == PluginEntry("foo", "/plugins/foo")

Bar == PluginEntry("bar", "/plugins/bar")

\* The documents a well-formed manifest file may hold.
ManifestDocs ==
    << Manifest(JArr(<<Foo>>)),
       Manifest(JArr(<<Foo, Bar>>)),
       Manifest(JArr(<<Bar, Foo>>)),
       Manifest(JArr(<<>>)),
       EmptyObj,
       Manifest(JNull),
       Manifest(JArr(<<JObj([name |-> JStr("foo")])>>)),
       JArr(<<>>),
       JObj([plugins |-> JNull]),
       Manifest(JArr(<<JNum(1)>>)),
       Manifest(JNum(5)),
       Manifest(JArr(<<JObj([name |-> JStr("foo"), path |-> JNum(5)])>>)) >>

\* The content of the manifest file: a JSON document, or text json cannot parse.
JsonText(i) == <<[kind |-> "json", doc |-> i]>>

Garbage == <<[kind |-> "garbage", doc |-> 0]>>

ManifestFiles ==
    {[exists |-> FALSE, readable |-> FALSE, content |-> <<>>],
     [exists |-> TRUE, readable |-> FALSE, content |-> JsonText(1)],
     [exists |-> TRUE, readable |-> TRUE, content |-> <<>>],
     [exists |-> TRUE, readable |-> TRUE, content |-> Garbage]}
        \cup {[exists |-> TRUE, readable |-> TRUE, content |-> JsonText(i)] :
                i \in DOMAIN ManifestDocs}

Ok(val) == [raised |-> FALSE, value |-> val]

Raise == [raised |-> TRUE, value |-> <<>>]

\* json.loads: raises on the empty string and on text that is not JSON.
json_loads(s) ==
    IF s # <<>> /\ s[1].kind = "json" THEN Ok(ManifestDocs[s[1].doc]) ELSE Raise

\* Python's truth value of a JSON value.
truthy(j) ==
    CASE j.t = "null" -> FALSE
      [] j.t = "num" -> j.v # 0
      [] j.t = "str" -> j.v # ""
      [] j.t = "arr" -> j.v # <<>>
      [] j.t = "obj" -> DOMAIN j.v # {}
      [] OTHER -> FALSE

\* d.get(key, default) of a dict d.
get(d, key, default) == IF key \in DOMAIN d.v THEN d.v[key] ELSE default

\* Lines 167-172: the loop over the entries; p.get raises unless p is a dict.
RECURSIVE collect(_)
collect(entries) ==
    IF entries = <<>> THEN Ok(<<>>)
    ELSE LET p == Head(entries)
         IN  IF p.t # "obj" THEN Raise
             ELSE LET name == get(p, "name", JNull)
                      path == get(p, "path", JNull)
                      rest == collect(Tail(entries))
                  IN  IF rest.raised THEN Raise
                      ELSE IF truthy(name) /\ truthy(path)
                      THEN Ok(<<[name |-> name, path |-> path]>> \o rest.value)
                      ELSE rest

\* Line 166 and the loop: what parse_plugins does with the parsed document.
plugins_of(data) ==
    IF data.t # "obj" THEN Raise
    ELSE LET pl == get(data, "plugins", EmptyObj)
         IN  IF pl.t # "obj" THEN Raise
             ELSE LET a == get(pl, "android", JArr(<<>>))
                  IN  IF ~truthy(a) THEN Ok(<<>>)
                      ELSE IF a.t = "arr" THEN collect(a.v)
                      ELSE Raise

\* parse_plugins (lines 156-173): the list, or the error it raises.
parse_plugins(m) ==
    IF ~m.exists THEN Ok(<<>>)
    ELSE LET data == json_loads(read_text(m))
         IN  IF data.raised THEN Ok(<<>>) ELSE plugins_of(data.value)

(***************************************************************************)
(* The worlds main is run in.                                              *)
(***************************************************************************)

Jcenter1 == <<Frag("jcenter")>>

JcenterCompile2 == <<Frag("jcenter"), Frag("compile")>>

\* The files that may lie under the project's android/ directory.
ProjectNames ==
    [p \in {"android/build.gradle", "android/settings.gradle",
            "android/app/build.gradle.kts", "android/gradle.properties",
            "android/local.properties"} |->
        CASE p = "android/build.gradle" -> <<"build", "gradle">>
          [] p = "android/settings.gradle" -> <<"settings", "gradle">>
          [] p = "android/app/build.gradle.kts" -> <<"build", "gradle", "kts">>
          [] p = "android/gradle.properties" -> <<"gradle", "properties">>
          [] OTHER -> <<"local", "properties">>]

\* What such a file holds: clean text, text with one or two findings, or
\* text with a finding that cannot be read.
ProjectFiles ==
    {File(p, ProjectNames[p], c, TRUE) :
        p \in DOMAIN ProjectNames, c \in {<<>>, Jcenter1, JcenterCompile2}}
      \cup {File(p, ProjectNames[p], Jcenter1, FALSE) : p \in DOMAIN ProjectNames}

DistinctPaths(t) == \A i, j \in DOMAIN t : i # j => t[i].path # t[j].path

\* Every enumeration order of every choice of at most MaxFiles files.
ProjectTrees ==
    {t \in UNION {[1..n -> ProjectFiles] : n \in 0..MaxFiles} : DistinctPaths(t)}

\* A directory or file a plugin may resolve to: android says whether
\* <path>/android exists, tree lists the files under it.
Node(p, n, ex, dir, tree) ==
    [path |-> p, name |-> n, exists |-> ex, is_dir |-> dir,
     android |-> tree # <<>>, tree |-> tree]

\* The states of a declared plugin directory: missing, without android/,
\* with android/.
DeclaredStates(p, n, tree) ==
    {Node(p, n, FALSE, FALSE, <<>>), Node(p, n, TRUE, TRUE, <<>>),
     Node(p, n, TRUE, TRUE, tree)}

FooTree ==
    <<File("/plugins/foo/android/build.gradle", <<"build", "gradle">>,
           <<Frag("compile")>>, TRUE)>>

BarTree ==
    <<File("/plugins/bar/android/settings.gradle", <<"settings", "gradle">>,
           <<Frag("kae"), Agp(<<7>>), Frag("provided")>>, TRUE),
      File("/plugins/bar/android/build.gradle", <<"build", "gradle">>, <<>>, TRUE)>>

DeclaredDirs ==
    {[p \in {"/plugins/foo", "/plugins/bar"} |->
        IF p = "/plugins/foo" THEN f ELSE b] :
        f \in DeclaredStates("/plugins/foo", <<"foo">>, FooTree),
        b \in DeclaredStates("/plugins/bar", <<"bar">>, BarTree)}

\* What may lie under the pub cache; a name is split at its hyphens.
CacheEntries ==
    {Node("cache/hosted/pub.dev/foo-1.0.0", <<"foo", "1.0.0">>, TRUE, TRUE,
          <<File("cache/hosted/pub.dev/foo-1.0.0/android/build.gradle",
                 <<"build", "gradle">>, JcenterCompile2, TRUE)>>),
     Node("cache/hosted-hashes/pub.dev/foo-1.0.0.sha256", <<"foo", "1.0.0.sha256">>,
          TRUE, FALSE, <<>>),
     Node("cache/hosted/pub.dev/foo-2.0.0", <<"foo", "2.0.0">>, TRUE, TRUE,
          <<File("cache/hosted/pub.dev/foo-2.0.0/android/build.gradle",
                 <<"build", "gradle">>, Jcenter1, FALSE),
            File("cache/hosted/pub.dev/foo-2.0.0/android/app/build.gradle",
                 <<"build", "gradle">>, Jcenter1, TRUE)>>),
     Node("cache/hosted/pub.dev/foo_extra-1.0.0", <<"foo_extra", "1.0.0">>, TRUE, TRUE,
          <<File("cache/hosted/pub.dev/foo_extra-1.0.0/android/build.gradle",
                 <<"build", "gradle">>, JcenterCompile2, TRUE)>>)}

\* gradle-wrapper.properties: missing, unreadable, without and with a
\* distributionUrl line, and with two of them.
WrapperFiles ==
    {[exists |-> FALSE, readable |-> FALSE, content |-> <<>>],
     [exists |-> TRUE, readable |-> FALSE, content |-> <<WrapperLine("8.10")>>],
     [exists |-> TRUE, readable |-> TRUE, content |-> <<WrapperLine("")>>],
     [exists |-> TRUE, readable |-> TRUE,
      content |-> <<WrapperLine(""), WrapperLine("8.10")>>],
     [exists |-> TRUE, readable |-> TRUE,
      content |-> <<WrapperLine("7.6"), WrapperLine("8.10")>>]}

Wrapper810 ==
    [exists |-> TRUE, readable |-> TRUE,
     content |-> <<WrapperLine(""), WrapperLine("8.10")>>]

CacheListings ==
    {t \in UNION {[1..n -> CacheEntries] : n \in 0..MaxCache} : DistinctPaths(t)}

\* main before its first statement.
MainInit ==
    /\ pc = "start"
    /\ out = <<>>
    /\ android_files = <<>>
    /\ fi = 1
    /\ project_findings = <<>>
    /\ plugins = <<>>
    /\ pi = 1
    /\ plugin_findings = <<>>
    /\ wrapper_version = ""
    /\ total_project = 0
    /\ total_plugins = 0
    /\ total = 0
    /\ exit_status = -1
    /\ scanned = 0
    /\ found = 0
    /\ resolved = <<>>

OneFooManifest == [exists |-> TRUE, readable |-> TRUE, content |-> JsonText(1)]

\* Worlds that vary the project: the two project markers and android/.
ProjectWorlds ==
    /\ has_pubspec \in BOOLEAN
    /\ has_android \in BOOLEAN
    /\ android_tree \in (IF has_android THEN ProjectTrees ELSE {<<>>})
    /\ manifest = OneFooManifest
    /\ declared \in
          {d \in DeclaredDirs : d["/plugins/foo"].android /\ d["/plugins/bar"].android}
    /\ pub_cache = <<>>
    /\ wrapper \in WrapperFiles

\* Worlds that vary the plugins: the manifest, the declared directories and
\* the pub cache, under a project with or without findings.
PluginWorlds ==
    /\ has_pubspec = TRUE
    /\ has_android = TRUE
    /\ android_tree \in
        {<<>>, <<File("android/build.gradle", <<"build", "gradle">>, Jcenter1, TRUE)>>}
    /\ manifest \in ManifestFiles
    /\ declared \in DeclaredDirs
    /\ pub_cache \in CacheListings
    /\ wrapper = Wrapper810

Init ==
    /\ text = <<>>
    /\ hits = <<>>
    /\ scan_pc = "idle"
    /\ ProjectWorlds \/ PluginWorlds
    /\ MainInit

(***************************************************************************)
(* main (lines 198-308), one action per block of statements.               *)
(***************************************************************************)

Line(k) == [kind |-> k, file |-> "", n |-> 0]

Card(k, f, n) == [kind |-> k, file |-> f, n |-> n]

\* An uncaught exception ends the process: Python exits with status 1.
Crash ==
    /\ pc' = "crashed"
    /\ exit_status' = 1

\* A faulty variant: the diagnostic is printed but sys.exit(1) is forgotten.
CheckPubspecNoExit ==
    /\ pc = "start"
    /\ out' = (IF has_pubspec THEN out ELSE Append(out, Line("diag_pubspec")))
    /\ pc' = "check_android"
    /\ UNCHANGED <<scan_vars, world_vars, android_files, fi, project_findings,
                   plugins, pi, plugin_findings, wrapper_version, total_project,
                   total_plugins, total, exit_status, scanned, found, resolved>>

\* Lines 199-202.
CheckPubspec ==
    /\ pc = "start"
    /\ IF ~has_pubspec
       THEN /\ out' = Append(out, Line("diag_pubspec"))
            /\ exit_status' = 1
            /\ pc' = "fatal"
       ELSE /\ pc' = "check_android"
            /\ UNCHANGED <<out, exit_status>>
    /\ UNCHANGED <<scan_vars, world_vars, android_files, fi, project_findings,
                   plugins, pi, plugin_findings, wrapper_version, total_project,
                   total_plugins, total, scanned, found, resolved>>

\* Lines 204-209: the second check, then the title box.
CheckAndroid ==
    /\ pc = "check_android"
    /\ IF ~has_android
       THEN /\ out' = Append(out, Line("diag_android"))
            /\ exit_status' = 1
            /\ pc' = "fatal"
       ELSE /\ out' = Append(out, Line("title"))
            /\ pc' = "find"
            /\ UNCHANGED exit_status
    /\ UNCHANGED <<scan_vars, world_vars, android_files, fi, project_findings,
                   plugins, pi, plugin_findings, wrapper_version, total_project,
                   total_plugins, total, scanned, found, resolved>>

\* Lines 212-216.
FindProject ==
    /\ pc = "find"
    /\ project_findings' = <<>>
    /\ android_files' = find_files(android_tree, PATTERNS)
    /\ fi' = 1
    /\ pc' = "scan_project"
    /\ UNCHANGED <<scan_vars, world_vars, out, plugins, pi, plugin_findings,
                   wrapper_version, total_project, total_plugins, total,
                   exit_status, scanned, found, resolved>>

\* Lines 217-221: one turn of the loop over android_files.
ScanProjectFile ==
    /\ pc = "scan_project"
    /\ fi <= Len(android_files)
    /\ LET f == android_files[fi]
           txt == read_text(f)
       IN  IF txt = Raised
           THEN /\ Crash
                /\ UNCHANGED <<project_findings, fi, scanned, found>>
           ELSE LET h == scan_text_for_rules(txt)
                IN  /\ project_findings' =
                          (IF h # <<>>
                           THEN Append(project_findings, [file |-> f.path, hits |-> h])
                           ELSE project_findings)
                    /\ fi' = fi + 1
                    /\ scanned' = scanned + 1
                    /\ found' = found + Len(h)
                    /\ UNCHANGED <<pc, exit_status>>
    /\ UNCHANGED <<scan_vars, world_vars, out, android_files, plugins, pi,
                   plugin_findings, wrapper_version, total_project, total_plugins,
                   total, resolved>>

\* Lines 223-228: the loop is over; the wrapper version is looked up.
ReadWrapper ==
    /\ pc = "scan_project"
    /\ fi > Len(android_files)
    /\ wrapper_version' = wrapper_version_of(wrapper)
    /\ pc' = "parse_plugins"
    /\ UNCHANGED <<scan_vars, world_vars, out, android_files, fi, project_findings,
                   plugins, pi, plugin_findings, total_project, total_plugins,
                   total, exit_status, scanned, found, resolved>>

\* Lines 231-233: plugins = parse_plugins(root).
ParsePlugins ==
    /\ pc = "parse_plugins"
    /\ LET r == parse_plugins(manifest)
       IN  IF r.raised
           THEN /\ Crash
                /\ UNCHANGED <<plugins, pi, plugin_findings>>
           ELSE /\ plugin_findings' = <<>>
                /\ plugins' = r.value
                /\ pi' = 1
                /\ pc' = "plugins"
                /\ UNCHANGED exit_status
    /\ UNCHANGED <<scan_vars, world_vars, out, android_files, fi, project_findings,
                   wrapper_version, total_project, total_plugins, total, scanned,
                   found, resolved>>

\* The directory a manifest path names; a path nothing is known of is missing.
declared_dir(path) ==
    IF path \in DOMAIN declared THEN declared[path]
    ELSE Node(path, <<>>, FALSE, FALSE, <<>>)

\* pub_cache.rglob(f"{name}-*"): the entries whose name starts with name and
\* a hyphen, files and directories alike, as enumerated.
candidates_of(name) ==
    SelectSeq(pub_cache, LAMBDA e : Len(e.name) >= 2 /\ e.name[1] = name)

\* Lines 237-243: the declared path, or the first candidate when it is missing.
base_of(p) ==
    LET d == declared_dir(p.path.v)
        candidates == candidates_of(p.name.v)
    IN  IF ~d.exists /\ candidates # <<>> THEN candidates[1] ELSE d

\* Lines 235-261: one turn of the loop over plugins.  Path(p["path"]) raises
\* a TypeError unless the path is a string.
PluginStep ==
    /\ pc = "plugins"
    /\ pi <= Len(plugins)
    /\ LET p == plugins[pi]
       IN  IF p.path.t # "str"
           THEN /\ Crash
                /\ UNCHANGED <<pi, plugin_findings, scanned, found, resolved>>
           ELSE LET base == base_of(p)
                    plugin_files == find_files(base.tree, PATTERNS)
                    hits_per_file == scan_files(plugin_files)
                    skip == ~base.android
                IN  /\ plugin_findings' =
                          (IF ~skip /\ hits_per_file # <<>>
                           THEN Append(plugin_findings,
                                       [name |-> p.name.v, base |-> base.path,
                                        files |-> hits_per_file])
                           ELSE plugin_findings)
                    /\ pi' = pi + 1
                    /\ scanned' = scanned + (IF skip THEN 0 ELSE Len(plugin_files))
                    /\ found' = found + (IF skip THEN 0 ELSE sum_len(hits_per_file))
                    /\ resolved' =
                          Append(resolved,
                                 [name |-> p.name.v, path |-> p.path.v,
                                  base |-> base.path, skipped |-> skip,
                                  count |-> IF skip THEN 0 ELSE sum_len(hits_per_file)])
                    /\ UNCHANGED <<pc, exit_status>>
    /\ UNCHANGED <<scan_vars, world_vars, out, android_files, fi, project_findings,
                   plugins, wrapper_version, total_project, total_plugins, total>>

\* Lines 264-274: the totals and the summary block.
Summary ==
    /\ pc = "plugins"
    /\ pi > Len(plugins)
    /\ total_project' = sum_len(project_findings)
    /\ total_plugins' = sum_plugins(plugin_findings)
    /\ total' = total_of(total_project', total_plugins')
    /\ out' = Append(out, Card("summary", "", total'))
                \o (IF wrapper_version # ""
                    THEN <<Card("wrapper_line", wrapper_version, 0)>> ELSE <<>>)
    /\ pc' = "report"
    /\ UNCHANGED <<scan_vars, world_vars, android_files, fi, project_findings,
                   plugins, pi, plugin_findings, wrapper_version, exit_status,
                   scanned, found, resolved>>

\* print_file_card for every (file, hits) entry.
file_cards(findings) ==
    [i \in DOMAIN findings |->
        Card("file_card", findings[i].file, Len(findings[i].hits))]

\* Lines 289-298: a plugin card, then the cards of the plugin's files.
RECURSIVE plugin_cards(_)
plugin_cards(pf) ==
    IF pf = <<>> THEN <<>>
    ELSE <<Card("plugin_card", Head(pf).name, sum_len(Head(pf).files))>>
            \o file_cards(Head(pf).files) \o plugin_cards(Tail(pf))

\* Lines 277-308: the two sections, the footer, the exit status.
Report ==
    /\ pc = "report"
    /\ out' = out
            \o <<Line("project_section")>>
            \o (IF project_findings = <<>> THEN <<Line("project_clean")>>
                ELSE file_cards(project_findings))
            \o <<Line("plugin_section")>>
            \o (IF plugin_findings = <<>> THEN <<Line("plugins_clean")>>
                ELSE plugin_cards(plugin_findings))
            \o <<Line("next_steps")>>
    /\ exit_status' = (IF total > 0 THEN 1 ELSE 0)
    /\ pc' = "done"
    /\ UNCHANGED <<scan_vars, world_vars, android_files, fi, project_findings,
                   plugins, pi, plugin_findings, wrapper_version, total_project,
                   total_plugins, total, scanned, found, resolved>>

Next ==
    \/ CheckPubspec
    \/ CheckAndroid
    \/ FindProject
    \/ ScanProjectFile
    \/ ReadWrapper
    \/ ParsePlugins
    \/ PluginStep
    \/ Summary
    \/ Report

Spec == Init /\ [][Next]_vars

(***************************************************************************)
(* scan_text_for_rules on its own, over every text of at most MaxTextLen   *)
(* fragments.                                                              *)
(***************************************************************************)

\* main is not running: nothing printed, nothing scanned.
ScanWorld ==
    /\ has_pubspec = TRUE
    /\ has_android = TRUE
    /\ android_tree = <<>>
    /\ manifest = OneFooManifest
    /\ declared \in
          {d \in DeclaredDirs : d["/plugins/foo"].android /\ d["/plugins/bar"].android}
    /\ pub_cache = <<>>
    /\ wrapper = Wrapper810
    /\ MainInit

ScanInit ==
    /\ text \in Texts
    /\ hits = <<>>
    /\ scan_pc = "call"
    /\ ScanWorld

\* hits = scan_text_for_rules(text)
Scan ==
    /\ scan_pc = "call"
    /\ hits' = scan_text_for_rules(text)
    /\ scan_pc' = "return"
    /\ UNCHANGED <<text, world_vars, main_vars>>

ScanNext == Scan

SpecScan == ScanInit /\ [][ScanNext]_vars

(***************************************************************************)
(* The properties.                                                         *)
(***************************************************************************)

Range(s) == {s[i] : i \in DOMAIN s}

\* The kinds of output that belong to the report.
ReportKinds ==
    {"title", "summary", "wrapper_line", "project_section", "project_clean", "file_card",
     "plugin_section", "plugins_clean", "plugin_card", "next_steps"}

\* C1: when main passes both checks and runs to its last line, the exit
\* status is 0 if and only if the scans of all project files and all plugin
\* files returned no finding at all, and it is 1 otherwise.
C1_ExitStatusIffNoFindings ==
    pc = "done" =>
        /\ has_pubspec /\ has_android
        /\ exit_status \in {0, 1}
        /\ (exit_status = 0 <=> found = 0)

\* C1's case: a clean project whose only findings are a plugin's.
C1_Witness ==
    /\ pc = "done"
    /\ exit_status = 1
    /\ total_project = 0
    /\ found > 0

\* C5: with pubspec.yaml or android/ missing, main prints one diagnostic and
\* exits with status 1; no part of the report is ever printed and no file
\* is ever scanned; the report appears only when both are present.
C5_FatalPreconditionsSkipReport ==
    /\ (~has_pubspec \/ ~has_android) =>
          /\ scanned = 0
          /\ \A i \in DOMAIN out : out[i].kind \notin ReportKinds
          /\ pc \in {"start", "check_android", "fatal"}
          /\ pc = "check_android" => has_pubspec
          /\ pc = "fatal" =>
                /\ exit_status = 1
                /\ out = <<Line(IF ~has_pubspec THEN "diag_pubspec" ELSE "diag_android")>>
    /\ pc = "fatal" => (~has_pubspec \/ ~has_android)

\* C5's case: android/ is missing and main has exited on the second check.
C5_Witness ==
    /\ has_pubspec
    /\ ~has_android
    /\ pc = "fatal"
    /\ exit_status = 1
    /\ out = <<Line("diag_android")>>

\* The files, with every unreadable one replaced by an empty readable one.
Emptied(files) ==
    [i \in DOMAIN files |->
        IF files[i].readable THEN files[i]
        ELSE File(files[i].path, files[i].name, <<>>, TRUE)]

\* The paths of the unreadable files among the given ones.
Unreadable(files) == {f.path : f \in {g \in Range(files) : ~g.readable}}

\* Every file any run of this world can reach.
AllTrees ==
    {android_tree} \cup {declared[p].tree : p \in DOMAIN declared}
        \cup {e.tree : e \in Range(pub_cache)}

\* The directory or file at a path of this world.
PathNode(path) ==
    IF \E e \in Range(pub_cache) : e.path = path
    THEN CHOOSE e \in Range(pub_cache) : e.path = path
    ELSE declared[path]

\* The findings of the first n plugin entries processed.
RECURSIVE CountSum(_, _)
CountSum(rs, n) == IF n = 0 THEN 0 ELSE rs[n].count + CountSum(rs, n - 1)

\* C7: a failed read is an empty text: the loop goes on to the next file, an
\* unreadable file gets no entry (so no card), and the entries, the counts
\* and the totals are those of the same files with the unreadable ones empty.
C7_UnreadableFileCountsAsEmpty ==
    /\ pc = "crashed" => fi > Len(android_files)
    /\ pc \in {"scan_project", "parse_plugins", "plugins", "report", "done", "crashed"} =>
          /\ fi <= Len(android_files) + 1
          /\ project_findings =
                scan_files(Emptied(SubSeq(android_files, 1, fi - 1)))
    /\ \A e \in Range(project_findings) : e.file \notin Unreadable(android_tree)
    /\ \A pf \in Range(plugin_findings) : \A e \in Range(pf.files) :
          \A t \in AllTrees : e.file \notin Unreadable(t)
    /\ \A i \in DOMAIN resolved :
          ~resolved[i].skipped =>
              resolved[i].count =
                  sum_len(scan_files(Emptied(
                      find_files(PathNode(resolved[i].base).tree, PATTERNS))))
    /\ pc \in {"report", "done"} =>
          /\ total_project =
                sum_len(scan_files(Emptied(find_files(android_tree, PATTERNS))))
          /\ total = total_project + CountSum(resolved, Len(resolved))

\* C7's case: the first file cannot be read, the scan went on and the second
\* file's finding is the only one.
C7_Witness ==
    /\ pc = "done"
    /\ Len(android_files) = 2
    /\ ~android_files[1].readable
    /\ android_files[1].content # <<>>
    /\ Len(project_findings) = 1
    /\ project_findings[1].file = android_files[2].path
    /\ total_project = 1

\* The files of a tree that some pattern of PATTERNS matches, as a set.
MatchingFiles(tree) ==
    {f \in Range(tree) : \E i \in DOMAIN PATTERNS : fnmatch(f.name, PATTERNS[i])}

\* The text a scan of the file sees.
TextOf(f) == IF f.readable THEN f.content ELSE <<>>

\* The (file, hits) entries of a set of files, whatever order they come in.
EntriesOf(files) ==
    {e \in {[file |-> f.path, hits |-> scan_text_for_rules(TextOf(f))] : f \in files} :
        e.hits # <<>>}

\* The sum of f over the finite set S, taken in no particular order.
RECURSIVE SumOver(_, _)
SumOver(f, S) ==
    IF S = {} THEN 0
    ELSE LET x == CHOOSE y \in S : TRUE
         IN  f[x] + SumOver(f, S \ {x})

\* The number of findings in a set of entries.
HitCount(entries) == SumOver([e \in entries |-> Len(e.hits)], entries)

\* The findings one manifest entry contributes: a function of the entry and
\* the file system alone.
PluginCount(p) ==
    LET base == base_of(p)
    IN  IF base.android THEN HitCount(EntriesOf(MatchingFiles(base.tree))) ELSE 0

\* The plugin total as a sum over the positions of the manifest's list.
PluginTotal ==
    SumOver([i \in DOMAIN plugins |-> PluginCount(plugins[i])], DOMAIN plugins)

\* C8: the per-file findings, the project total, the plugin total and the
\* exit status are functions of the set of discovered files and of the
\* manifest's entries, not of the order in which they are processed: in
\* every enumeration order of the files and every order of the plugins the
\* run ends with the values computed from the sets.
C8_OrderOfProcessingIsIrrelevant ==
    /\ pc \in {"parse_plugins", "plugins", "report", "done"} =>
          /\ Range(project_findings) = EntriesOf(MatchingFiles(android_tree))
          /\ Len(project_findings) = Cardinality(EntriesOf(MatchingFiles(android_tree)))
    /\ \A i \in DOMAIN resolved :
          /\ resolved[i].name = plugins[i].name.v
          /\ resolved[i].count = PluginCount(plugins[i])
    /\ \A pf \in Range(plugin_findings) : \E i \in DOMAIN resolved :
          /\ resolved[i].base = pf.base
          /\ Range(pf.files) = EntriesOf(MatchingFiles(base_of(plugins[i]).tree))
    /\ pc \in {"report", "done"} =>
          /\ total_project = HitCount(EntriesOf(MatchingFiles(android_tree)))
          /\ total_plugins = PluginTotal
          /\ total = total_project + total_plugins
    /\ pc = "done" =>
          exit_status = (IF total_project + PluginTotal > 0 THEN 1 ELSE 0)

\* C8's case: two plugins with findings were processed bar first, then foo,
\* the second one from a cache directory whose first file has no findings.
C8_Witness ==
    /\ pc = "done"
    /\ Len(plugins) = 2
    /\ plugins[1].name.v = "bar"
    /\ plugins[2].name.v = "foo"
    /\ resolved[1].count = 3
    /\ resolved[2].base = "cache/hosted/pub.dev/foo-2.0.0"
    /\ resolved[2].count = 1
    /\ total_plugins = 4

\* C10: find_files returns every matching file once, also a file that two
\* patterns match; so each file is scanned once, no file has two entries,
\* every stored entry has findings, and the project total is the sum of the
\* findings over the distinct matching files.
C10_EachFileScannedOnce ==
    /\ pc \notin {"start", "check_android", "find", "fatal"} =>
          /\ DistinctPaths(android_files)
          /\ Range(android_files) = MatchingFiles(android_tree)
    /\ (pc = "scan_project" /\ fi > Len(android_files)) =>
          scanned = Cardinality(MatchingFiles(android_tree))
    /\ \A e \in Range(project_findings) : e.hits # <<>>
    /\ \A i, j \in DOMAIN project_findings :
          i # j => project_findings[i].file # project_findings[j].file
    /\ pc \in {"report", "done"} =>
          total_project = HitCount(EntriesOf(MatchingFiles(android_tree)))

\* C10's case: settings.gradle, which "*.gradle" and "settings.gradle" both
\* match, holds two findings and is counted once.
C10_Witness ==
    /\ pc = "done"
    /\ \E i \in DOMAIN android_tree :
          /\ android_tree[i].name = <<"settings", "gradle">>
          /\ android_tree[i].readable
          /\ Len(scan_text_for_rules(android_tree[i].content)) = 2
    /\ Len(android_files) = 1
    /\ total_project = 2

\* Whether a JSON document has the shape the manifest is documented to have:
\* {"plugins": {"android": [{name, path}, ...]}} with string names and paths.
DocumentedShape(doc) ==
    /\ doc.t = "obj"
    /\ "plugins" \in DOMAIN doc.v
    /\ doc.v["plugins"].t = "obj"
    /\ "android" \in DOMAIN doc.v["plugins"].v
    /\ doc.v["plugins"].v["android"].t = "arr"
    /\ \A e \in Range(doc.v["plugins"].v["android"].v) :
          /\ e.t = "obj"
          /\ {"name", "path"} \subseteq DOMAIN e.v
          /\ e.v["name"].t = "str"
          /\ e.v["path"].t = "str"

\* Whether the manifest file holds a document of the documented shape.
ManifestAsDocumented ==
    /\ manifest.exists
    /\ manifest.readable
    /\ manifest.content # <<>>
    /\ manifest.content[1].kind = "json"
    /\ DocumentedShape(ManifestDocs[manifest.content[1].doc])

\* C6: whatever the manifest file holds, no error leaves parse_plugins (or
\* the loop that uses its list): the run never dies of an exception, and a
\* content that is not of the documented shape gives the empty list.
C6_ManifestNeverRaises ==
    /\ pc # "crashed"
    /\ (pc \in {"plugins", "report", "done"} /\ ~ManifestAsDocumented) => plugins = <<>>

\* The cache entries that are directories named <name>-..., as enumerated.
CacheDirsOf(name) ==
    SelectSeq(pub_cache, LAMBDA e : e.is_dir /\ Len(e.name) >= 2 /\ e.name[1] = name)

\* C9: a plugin whose declared path exists is looked for there and nowhere
\* else; a plugin whose declared path is missing is looked for in the first
\* enumerated cache subdirectory named <plugin-name>-...; a plugin whose
\* base has no android subdirectory, or that has no candidate, is skipped
\* and contributes nothing.
C9_FallbackPicksFirstCacheDirectory ==
    \A i \in DOMAIN resolved :
        LET r == resolved[i]
            d == declared_dir(r.path)
            dirs == CacheDirsOf(r.name)
        IN  /\ d.exists => r.base = d.path
            /\ (~d.exists /\ dirs # <<>>) => r.base = dirs[1].path
            /\ (~d.exists /\ dirs = <<>>) => r.skipped
            /\ r.skipped <=> ~PathNode(r.base).android
            /\ r.skipped => r.count = 0

\* The finding of the rule in row r of RULES.
RuleFinding(r) == [sev |-> RULES[r].sev, title |-> RULES[r].title, advice |-> RULES[r].advice]

\* The row of RULES a finding comes from.
RuleIndex(h) == CHOOSE r \in DOMAIN RULES : RULES[r].title = h.title

\* The positions of the fragments of the given kind in the scanned text.
Positions(kind) == {i \in DOMAIN text : text[i].kind = kind}

\* The least element of a non-empty set of positions.
Least(P) == CHOOSE i \in P : \A j \in P : i <= j

\* C2: the findings of a scan are findings of distinct rules and come in the
\* order of the RULES table: the rows they come from increase strictly from
\* one finding to the next, however often and wherever the patterns occur.
C2_OneFindingPerRuleInTableOrder ==
    scan_pc = "return" =>
        /\ \A i \in DOMAIN hits : \E r \in DOMAIN RULES : hits[i] = RuleFinding(r)
        /\ \A i, j \in DOMAIN hits : i < j => RuleIndex(hits[i]) < RuleIndex(hits[j])

\* C2's case: jcenter() before two uses of compile; the compile finding
\* comes first and once.
C2_Witness ==
    /\ scan_pc = "return"
    /\ text = <<Frag("jcenter"), Frag("compile"), Frag("compile")>>
    /\ hits = <<RuleFinding(2), RuleFinding(4)>>

\* C3 as stated: the AGP finding is reported whenever some AGP classpath
\* declaration of the text has a major below 8, and is not reported when
\* the declarations of the text all have a major of 8 or more.
C3_AnyOldAgpDeclarationIsReported ==
    scan_pc = "return" =>
        /\ (\E i \in Positions("agp") : int(text[i].g1) < 8) =>
              RuleFinding(6) \in Range(hits)
        /\ (Positions("agp") # {} /\ \A i \in Positions("agp") : int(text[i].g1) >= 8) =>
              RuleFinding(6) \notin Range(hits)

\* C3, amended: the AGP finding is reported exactly when the first AGP
\* classpath declaration of the text has a major that is, as an integer,
\* below 8; later declarations do not count.
C3_FirstAgpDeclarationDecides ==
    scan_pc = "return" =>
        (RuleFinding(6) \in Range(hits)
            <=> /\ Positions("agp") # {}
                /\ int(text[Least(Positions("agp"))].g1) < 8)

\* C3's case: AGP 10 declared before AGP 7: no finding.
C3_Witness ==
    /\ scan_pc = "return"
    /\ Len(text) >= 2
    /\ text[1] = Agp(<<1, 0>>)
    /\ text[2] = Agp(<<7>>)
    /\ RuleFinding(6) \notin Range(hits)

\* (a1, a2) < (b1, b2) as tuples of integers.
TupleLess(a, b) == a[1] < b[1] \/ (a[1] = b[1] /\ a[2] < b[2])

\* C4: with (major, minor) the integers captured from the Kotlin plugin
\* declaration the pattern finds, the Kotlin finding is reported exactly
\* when (major, minor) < (1, 9) as a tuple of integers; 1.9, 1.10 and every
\* 2.x give none.
C4_KotlinBelowOneNine ==
    scan_pc = "return" =>
        (RuleFinding(7) \in Range(hits)
            <=> /\ Positions("kotlin") # {}
                /\ LET m == text[Least(Positions("kotlin"))]
                   IN  TupleLess(<<int(m.g1), int(m.g2)>>, <<1, 9>>))

\* C4's case: Kotlin 2.0, whose minor alone is below 9: no finding.
C4_Witness ==
    /\ scan_pc = "return"
    /\ Positions("kotlin") # {}
    /\ text[Least(Positions("kotlin"))] = Kotlin(<<2>>, <<0>>)
    /\ RuleFinding(7) \notin Range(hits)

====
